---- MODULE Spec2Model ----
(***************************************************************************)
(* Transcript reconciliation of the chat front-end (src/app.py,            *)
(* src/utils.py).  One render of the Streamlit script is one action: the   *)
(* script runs top to bottom on st.session_state, is cut short by          *)
(* st.rerun() or an early return, and the next render starts from the      *)
(* session state it left.  The agent runtime and the session store are     *)
(* collaborators; their failures are nondeterministic inputs of a render.  *)
(***************************************************************************)
EXTENDS Integers, Sequences, FiniteSets, TLC

\* ------------------------------------------------------------------ bounds
\* longest persisted run list a stored session starts with
MaxRuns == 2
\* agent.run calls made in one behaviour
MaxTurns == 1
\* longest Transcript handed to export_chat_history on its own
MaxExport == 2
\* most fragments a text handed to sanitize_agent_text on its own is made of
MaxFragments == 3

\* ------------------------------------------------------------ Python values
\* Python's None
NONE == "<None>"

\* f"{v}" of a value: None formats as the text None
Str(v) == IF v = NONE THEN "None" ELSE v

\* `not v` for a text-or-None value
Falsy(v) == v = NONE \/ v = ""

\* ------------------------------------------------- sanitize_agent_text
\* A text the regular expressions read is a sequence of one-character strings.
Lower ==
    {"a", "b", "c", "d", "e", "f", "g", "h", "i", "j", "k", "l", "m",
     "n", "o", "p", "q", "r", "s", "t", "u", "v", "w", "x", "y", "z"}

Upper ==
    {"A", "B", "C", "D", "E", "F", "G", "H", "I", "J", "K", "L", "M",
     "N", "O", "P", "Q", "R", "S", "T", "U", "V", "W", "X", "Y", "Z"}

Digit == {"0", "1", "2", "3", "4", "5", "6", "7", "8", "9"}

\* [A-Za-z_]
IdentStart == Lower \cup Upper \cup {"_"}

\* \w
WordChar == IdentStart \cup Digit

\* [\w-]
WordDash == WordChar \cup {"-"}

\* \s
Space == {" ", "\n", "\t"}

\* [0-9.]
NumChar == Digit \cup {"."}

\* the lower-case form of an upper-case letter of the words the patterns
\* spell out (re.IGNORECASE)
Fold(ch) ==
    CASE ch = "C" -> "c" [] ch = "O" -> "o" [] ch = "M" -> "m" [] ch = "P" -> "p"
      [] ch = "L" -> "l" [] ch = "E" -> "e" [] ch = "T" -> "t" [] ch = "D" -> "d"
      [] ch = "I" -> "i" [] ch = "N" -> "n" [] ch = "S" -> "s" [] OTHER -> ch

\* the character at position p, "" past the end
At(t, p) == IF p >= 1 /\ p <= Len(t) THEN t[p] ELSE ""

RECURSIVE SkipClass(_, _, _)
\* greedy C*: the first position from p on whose character is not in C
SkipClass(t, p, C) ==
    IF At(t, p) \in C THEN SkipClass(t, p + 1, C) ELSE p

RECURSIVE SkipUntil(_, _, _)
\* greedy [^x]*: the first position from p on that holds x, or the end
SkipUntil(t, p, x) ==
    IF p > Len(t) \/ t[p] = x THEN p ELSE SkipUntil(t, p + 1, x)

\* a literal word, case-insensitively: the position after it, 0 for no match
Lit(t, p, word) ==
    IF \A i \in 1..Len(word) : Fold(At(t, p + i - 1)) = word[i]
    THEN p + Len(word) ELSE 0

\* \s{min_ws,}completed\s+in\s+[0-9.]+s\.?  from p: the position after the
\* match, 0 for no match
Timing(t, p, min_ws) ==
    LET q1 == SkipClass(t, p, Space)
        q2 == Lit(t, q1, <<"c", "o", "m", "p", "l", "e", "t", "e", "d">>)
        q3 == SkipClass(t, q2, Space)
        q4 == Lit(t, q3, <<"i", "n">>)
        q5 == SkipClass(t, q4, Space)
        q6 == SkipClass(t, q5, NumChar)
    IN IF q1 - p < min_ws \/ q2 = 0 \/ q3 = q2 \/ q4 = 0 \/ q5 = q4 \/ q6 = q5
          \/ Fold(At(t, q6)) # "s"
       THEN 0
       ELSE IF At(t, q6 + 1) = "." THEN q6 + 2 ELSE q6 + 1

\* [A-Za-z_]C*\([^)]*\)  from p: the position after the match, 0 for no match
Call(t, p, C) ==
    IF At(t, p) \notin IdentStart THEN 0
    ELSE LET q1 == SkipClass(t, p + 1, C)
             q2 == SkipUntil(t, q1 + 1, ")")
         IN IF At(t, q1) = "(" /\ At(t, q2) = ")" THEN q2 + 1 ELSE 0

\* a call followed by its timing text
Timed(t, p, C, min_ws) ==
    LET q == Call(t, p, C) IN IF q = 0 THEN 0 ELSE Timing(t, q, min_ws)

\* TOOL_SNIPPET, lines 17-20, from p: the optional "label:" prefix is tried
\* first, then the call alone
ToolSnippet(t, p) ==
    LET q1 == SkipClass(t, p + 1, WordDash)
        q2 == SkipClass(t, q1, Space)
        q3 == SkipClass(t, q2 + 1, Space)
        with_prefix == IF At(t, p) \in IdentStart /\ At(t, q2) = ":"
                       THEN Timed(t, q3, WordDash, 0) ELSE 0
    IN IF with_prefix # 0 THEN with_prefix ELSE Timed(t, p, WordDash, 0)

\* the pattern of lines 33-34 from p: a colon, then a timed call
ColonSnippet(t, p) ==
    IF At(t, p) # ":" THEN 0
    ELSE Timed(t, SkipClass(t, p + 1, Space), WordChar, 1)

\* the match of one of the three patterns at p
MatchAt(pattern, t, p) ==
    CASE pattern = "tool" -> ToolSnippet(t, p)
      [] pattern = "colon" -> ColonSnippet(t, p)
      [] pattern = "timing" -> Timing(t, p, 0)

RECURSIVE Sub(_, _, _, _)
\* re.sub: every leftmost non-overlapping match from p on is replaced
Sub(pattern, repl, t, p) ==
    IF p > Len(t) THEN <<>>
    ELSE LET q == MatchAt(pattern, t, p)
         IN IF q # 0 THEN repl \o Sub(pattern, repl, t, q)
            ELSE <<t[p]>> \o Sub(pattern, repl, t, p + 1)

RECURSIVE strip(_)
\* str.strip()
strip(t) ==
    IF t = <<>> THEN t
    ELSE IF Head(t) \in Space THEN strip(Tail(t))
    ELSE IF t[Len(t)] \in Space THEN strip(SubSeq(t, 1, Len(t) - 1))
    ELSE t

\* utils.py sanitize_agent_text, lines 23-41
sanitize_agent_text(text) ==
    IF text = <<>> THEN text
    ELSE strip(Sub("timing", <<>>,
                 Sub("colon", <<":", " ">>,
                   Sub("tool", <<>>, text, 1), 1), 1))

RECURSIVE Join(_)
\* the str a sequence of characters spells
Join(t) == IF t = <<>> THEN "" ELSE Head(t) \o Join(Tail(t))

\* ------------------------------------------------------------- add_message
\* utils.py add_message: the message dict built at line 57 (image and
\* audio_bytes are optional keys no claim reads; they are left out)
Message(role, content, tool_calls) ==
    [role |-> role, content |-> content, tool_calls |-> tool_calls]

\* utils.py add_message, lines 44-63: appends unconditionally
add_message(msgs, role, content, tool_calls) ==
    Append(msgs, Message(role, content, tool_calls))

\* ------------------------------------------------------ export_chat_history
\* The exported text as its lines.  Line 71 picks the heading of a section
\* (the emoji in front of the two words is left out).
ExportRole(msg) == IF msg.role = "agent" THEN "### Assistant" ELSE "### User"

\* lines 73-80: the names of the tools of a message; tool_calls is kept as one
\* opaque value, read here as a list of one tool of that name
ExportTools(msg) ==
    IF Falsy(msg.tool_calls) THEN <<>>
    ELSE <<"#### Tools Used:", "- " \o msg.tool_calls>>

RECURSIVE ExportSections(_, _)
\* lines 70-80: one section per message, in Transcript order
ExportSections(msgs, i) ==
    IF i > Len(msgs) THEN <<>>
    ELSE <<ExportRole(msgs[i]), Str(msgs[i].content), "">>
           \o ExportTools(msgs[i]) \o ExportSections(msgs, i + 1)

\* a faulty variant of export_chat_history: an empty Transcript is exported
\* as one empty section
export_blank_section(s) ==
    IF s.has_messages
    THEN <<"# Finance Agent - Chat History", "">>
           \o (IF s.messages = <<>> THEN <<"### User", "", "">>
               ELSE ExportSections(s.messages, 1))
    ELSE <<>>

\* utils.py export_chat_history, lines 66-82, on the session state s
export_chat_history(s) ==
    IF s.has_messages
    THEN <<"# Finance Agent - Chat History", "">> \o ExportSections(s.messages, 1)
    ELSE <<>>

\* ---------------------------------------------------------- persisted runs
\* One entry of run["messages"]: isdict is FALSE for an entry that is not a
\* mapping (msg.get raises AttributeError).
Msg(role, content) ==
    [isdict |-> TRUE, role |-> role, content |-> content,
     has_tool_calls |-> FALSE, tool_calls |-> NONE, metrics |-> FALSE]

MsgTC(role, content, tc) ==
    [isdict |-> TRUE, role |-> role, content |-> content,
     has_tool_calls |-> TRUE, tool_calls |-> tc, metrics |-> FALSE]

MsgMetrics(role, content) ==
    [isdict |-> TRUE, role |-> role, content |-> content,
     has_tool_calls |-> FALSE, tool_calls |-> NONE, metrics |-> TRUE]

NotAMsg ==
    [isdict |-> FALSE, role |-> NONE, content |-> NONE,
     has_tool_calls |-> FALSE, tool_calls |-> NONE, metrics |-> FALSE]

\* A persisted run as the selector reads it.
\*   isdict        FALSE: the run is not a mapping ("messages" in run raises)
\*   has_messages  the "messages" key is present
\*   message       "absent" | "content" (a dict with a content key) | "other"
\*   user_msg      run["message"]["content"]
\*   content       run["content"], NONE when absent
\*   tools         run.get("tools")
MultiRun(msgs, tools) ==
    [isdict |-> TRUE, has_messages |-> TRUE, messages |-> msgs,
     message |-> "absent", user_msg |-> NONE, content |-> NONE, tools |-> tools]

SingleRun(user_msg, content, tools) ==
    [isdict |-> TRUE, has_messages |-> FALSE, messages |-> <<>>,
     message |-> "content", user_msg |-> user_msg, content |-> content,
     tools |-> tools]

\* a mapping with neither "messages" nor a usable "message"
NoFieldsRun ==
    [isdict |-> TRUE, has_messages |-> FALSE, messages |-> <<>>,
     message |-> "absent", user_msg |-> NONE, content |-> "b", tools |-> NONE]

\* a run that is not a mapping at all
NotADictRun ==
    [isdict |-> FALSE, has_messages |-> FALSE, messages |-> <<>>,
     message |-> "absent", user_msg |-> NONE, content |-> NONE, tools |-> NONE]

\* ------------------------------------------- reconcile (utils.py 277-328)
\* The tool_calls of an assistant message of a multi-message run, 295-302
MsgToolCalls(run, msg) ==
    IF msg.has_tool_calls THEN msg.tool_calls
    ELSE IF msg.metrics /\ ~Falsy(run.tools) THEN run.tools
    ELSE NONE

\* msg_id = f"{msg_role}:{msg_content}", line 288
MsgId(role, content) == Str(role) \o ":" \o Str(content)

\* The accumulator of one pass: the Transcript built so far, the local
\* seen_messages set, whether an exception left the loop, and the add_message
\* calls made.
Add(acc, role, content, tool_calls) ==
    [acc EXCEPT !.msgs = add_message(@, role, content, tool_calls),
                !.calls = Append(@, [role |-> role, content |-> content])]

\* a faulty variant of the test of utils.py 290: nothing is ever seen
NeverSeen(acc, msg_id) == FALSE

\* `msg_id in seen_messages`, lines 290, 316 and 324
AlreadySeen(acc, msg_id) == msg_id \in acc.seen

RECURSIVE MessagesLoop(_, _, _)
\* utils.py 281-306: the messages of one multi-message run
MessagesLoop(run, i, acc) ==
    IF i > Len(run.messages) THEN acc
    ELSE LET msg == run.messages[i] IN
      IF ~msg.isdict THEN [acc EXCEPT !.raised = TRUE]
      ELSE IF Falsy(msg.content) \/ msg.role = "system"
        THEN MessagesLoop(run, i + 1, acc)
      ELSE LET msg_id == MsgId(msg.role, msg.content) IN
        IF AlreadySeen(acc, msg_id) THEN MessagesLoop(run, i + 1, acc)
        ELSE LET a1 == [acc EXCEPT !.seen = @ \cup {msg_id}] IN
          MessagesLoop(run, i + 1,
            IF msg.role = "assistant"
            THEN Add(a1, msg.role, msg.content, MsgToolCalls(run, msg))
            ELSE Add(a1, msg.role, msg.content, NONE))

\* utils.py 308-328: a single-turn run
SingleTurn(run, acc) ==
    LET user_msg == run.user_msg
        uid == MsgId("user", user_msg)
        a1 == IF ~AlreadySeen(acc, uid)
              THEN Add([acc EXCEPT !.seen = @ \cup {uid}], "user", user_msg, NONE)
              ELSE acc
        asst_msg == run.content
        aid == MsgId("assistant", asst_msg)
    IN IF ~Falsy(run.content) /\ ~AlreadySeen(a1, aid)
       THEN Add([a1 EXCEPT !.seen = @ \cup {aid}], "assistant", asst_msg, run.tools)
       ELSE a1

\* utils.py 280-328: the body of `for run in ...memory["runs"]`
OneRun(run, acc) ==
    IF ~run.isdict THEN [acc EXCEPT !.raised = TRUE]
    ELSE IF run.has_messages THEN MessagesLoop(run, 1, acc)
    ELSE IF run.message = "content" THEN SingleTurn(run, acc)
    ELSE acc

RECURSIVE RunsLoop(_, _, _)
\* utils.py 279: the loop over the runs; an exception leaves it at once (the
\* try of line 249 encloses the whole loop)
RunsLoop(runs, i, acc) ==
    IF i > Len(runs) \/ acc.raised THEN acc
    ELSE RunsLoop(runs, i + 1, OneRun(runs[i], acc))

\* ------------------------------------------------ the collaborators' data
\* the runs a stored session may start with: both shapes, duplicates within a
\* run and across runs, skipped entries, and the two malformed kinds
RunCatalog ==
    { MultiRun(<<Msg("user", "a"), MsgMetrics("assistant", "b")>>, "tools"),
      MultiRun(<<Msg("system", "a"), Msg("user", "a"), Msg("assistant", ""),
                 Msg("user", "a"), MsgTC("assistant", "a", "tc")>>, NONE),
      MultiRun(<<Msg("user", "b"), NotAMsg, Msg("assistant", "a")>>, NONE),
      SingleRun("a", "b", "tools"),
      SingleRun("b", NONE, NONE),
      SingleRun(NONE, "a", NONE),
      NoFieldsRun,
      NotADictRun }

RECURSIVE SeqsUpTo(_, _)
\* all sequences over S of length at most n
SeqsUpTo(S, n) ==
    IF n = 0 THEN {<<>>}
    ELSE LET shorter == SeqsUpTo(S, n - 1)
         IN shorter \cup {Append(q, x) : q \in shorter, x \in S}

\* session ids: the stored ones, and the ids load_session() hands out
StoredIds == <<"s1", "s2", "s3">>

NewIds == <<"n1", "n2", "n3", "n4">>

\* storage.get_all_sessions() returns the records in this order
SessionOrder == StoredIds \o NewIds

SessionIds == {SessionOrder[i] : i \in 1..Len(SessionOrder)}

NoRecord ==
    [exists |-> FALSE, user_id |-> NONE, session_name |-> NONE,
     has_memory |-> FALSE, runs |-> <<>>]

\* a SessionRecord: session_id is the key it is stored under
Record(user_id, session_name, has_memory, runs) ==
    [exists |-> TRUE, user_id |-> user_id, session_name |-> session_name,
     has_memory |-> has_memory, runs |-> runs]

\* --------------------------------------------------------- the agent handle
NoAgent == [some |-> FALSE, user_id |-> NONE, session_id |-> NONE, runs |-> <<>>]

\* agentic_rag.py get_finance_agent: a handle bound to (user_id, session_id)
\* whose memory holds no runs yet
get_finance_agent(user_id, session_id) ==
    [some |-> TRUE, user_id |-> user_id, session_id |-> session_id, runs |-> <<>>]

\* One element of agent.memory.runs as app.py 185-191 reads it: an object that
\* may have a message and a response attribute.  The runtime builds it from
\* the persisted run: a single-turn run gives its message and its content, a
\* multi-message run its first user entry and its last assistant entry.
NoAgentRun ==
    [has_message |-> FALSE, role |-> NONE, content |-> NONE,
     has_response |-> FALSE, rcontent |-> NONE, rtools |-> NONE]

AsAgentRun(run) ==
    IF ~run.isdict THEN NoAgentRun
    ELSE IF run.has_messages
      THEN LET users == SelectSeq(run.messages,
                          LAMBDA e : e.isdict /\ e.role = "user")
               assts == SelectSeq(run.messages,
                          LAMBDA e : e.isdict /\ e.role = "assistant")
           IN [has_message |-> users # <<>>,
               role |-> IF users # <<>> THEN "user" ELSE NONE,
               content |-> IF users # <<>> THEN users[1].content ELSE NONE,
               has_response |-> assts # <<>>,
               rcontent |-> IF assts # <<>> THEN assts[Len(assts)].content ELSE NONE,
               rtools |-> run.tools]
    ELSE IF run.message = "content"
      THEN [has_message |-> TRUE, role |-> "user", content |-> run.user_msg,
            has_response |-> TRUE, rcontent |-> run.content, rtools |-> run.tools]
    ELSE NoAgentRun

\* agent.load_session(session_id), app.py 153: binds the handle to the session
\* and fills its memory from the store
load_session(agent, sid, rec) ==
    [agent EXCEPT !.session_id = sid,
                  !.runs = IF rec.exists /\ rec.has_memory
                           THEN [i \in 1..Len(rec.runs) |-> AsAgentRun(rec.runs[i])]
                           ELSE <<>>]

\* ------------------------------------------------------------------ state
\* st     st.session_state: messages (has_messages: the key exists),
\*        agentic_rag_agent, agentic_rag_agent_session_id,
\*        prevent_session_autoload, current_user_id, cached_user_id,
\*        session_selector (the selectbox's widget state, NONE when absent)
\* store  the session store, by session id
\* pending_rerun  the last render ended in st.rerun()
\* turns  agent.run calls made so far
\* passes for every session id it follows, the last rebuild of the Transcript
\*        from that session
\* ev     what the last render did (history, read by the properties only)
\* io     the last call of one of the text helpers of utils.py on its own:
\*        its name, its arguments and, once it has returned, its result
VARIABLES st, store, pending_rerun, turns, passes, ev, io

vars == <<st, store, pending_rerun, turns, passes, ev, io>>

\* placeholder_display, utils.py 207 (the source spells it with em dashes;
\* only its being distinct from every session display matters here)
placeholder_display == "- New Chat -"

\* the text app.py 345 builds from the exception
error_message == "Sorry, I encountered an error"

NoPass == [done |-> FALSE, runs |-> <<>>, result |-> <<>>, raised |-> FALSE]

Snapshot(s) ==
    [messages |-> s.messages,
     agentic_rag_agent |-> s.agentic_rag_agent,
     agentic_rag_agent_session_id |-> s.agentic_rag_agent_session_id,
     prevent_session_autoload |-> s.prevent_session_autoload]

\* the record of a render that has done nothing yet
EvStart(kind, s) ==
    [kind |-> kind,
     start |-> Snapshot(s),
     start_selector |-> s.session_selector,
     start_user_id |-> s.current_user_id,
     chosen |-> NONE,
     accepted |-> FALSE,
     loaded |-> FALSE,
     load_calls |-> 0,
     returned_id |-> NONE,
     load_raised |-> FALSE,
     consumed |-> 0,
     raise_after |-> 0,
     turn_base |-> <<>>,
     stream_raised |-> FALSE,
     partial |-> "",
     built |-> 0,
     autoload |-> FALSE,
     autoload_prevent |-> FALSE,
     base |-> s.messages,
     calls |-> <<>>,
     created |-> FALSE,
     ran_agent |-> FALSE,
     sel |-> "not_reached",
     target |-> NONE,
     pre |-> Snapshot(s),
     switch_built |-> FALSE,
     pass_prevent |-> FALSE,
     pass |-> NoPass,
     prev_pass |-> NoPass]

\* one add_message call made by the render script
Say(c, role, content, tool_calls) ==
    [c EXCEPT !.st.messages = add_message(@, role, content, tool_calls),
              !.st.has_messages = TRUE,
              !.ev.calls = Append(@, [role |-> role, content |-> content])]

\* a faulty variant of utils.py 261: the old Transcript is kept
KeepMessages(c) == c

\* st.session_state["messages"] = [], utils.py 261
ClearMessages(c) ==
    [c EXCEPT !.st.messages = <<>>, !.st.has_messages = TRUE,
              !.ev.base = <<>>, !.ev.calls = <<>>]

\* a faulty variant of utils.py 259: the flag is left as it is
KeepPrevent(c) == c

\* st.session_state["prevent_session_autoload"] = False, app.py 215 and
\* utils.py 259
ClearPrevent(c) == [c EXCEPT !.st.prevent_session_autoload = FALSE]

\* ------------------------------------------------ app.py main, 113-131
InitAgent(c) ==
    LET user_id == c.st.cached_user_id IN
    IF ~c.st.agentic_rag_agent.some
       \/ (user_id # "" /\ c.st.current_user_id # user_id)
    THEN [c EXCEPT
            !.st.agentic_rag_agent =
                get_finance_agent(IF user_id = "" THEN NONE ELSE user_id, NONE),
            !.st.current_user_id = user_id,
            !.ev.built = @ + 1]
    ELSE c

\* ------------------------------------------------ app.py main, 137-158
LoadExisting(c, env) ==
    LET sid == c.st.agentic_rag_agent_session_id IN
    IF sid # NONE /\ c.st.agentic_rag_agent.runs = <<>>
    THEN IF env.load_fails THEN [c EXCEPT !.ev.loaded = TRUE]
         ELSE [c EXCEPT !.st.agentic_rag_agent = load_session(@, sid, c.store[sid]),
                        !.ev.loaded = TRUE]
    ELSE c

\* ------------------------------------------------ app.py main, 163-193
\* st.session_state.get("prevent_session_autoload"), lines 168 and 182
PreventAutoload(s) == s.prevent_session_autoload

\* agent_runs, lines 163-172
AgentRuns(s) ==
    IF s.cached_user_id # "" /\ s.agentic_rag_agent_session_id # NONE
       /\ ~PreventAutoload(s)
    THEN s.agentic_rag_agent.runs
    ELSE <<>>

RECURSIVE AutoloadLoop(_, _, _)
\* lines 185-191
AutoloadLoop(runs, i, c) ==
    IF i > Len(runs) THEN c
    ELSE LET r == runs[i]
             c1 == IF r.has_message THEN Say(c, r.role, r.content, NONE) ELSE c
             c2 == IF r.has_response
                   THEN Say(c1, "assistant", r.rcontent, r.rtools) ELSE c1
         IN AutoloadLoop(runs, i + 1, c2)

\* a faulty variant of the test of line 180: the Transcript is never looked at
AnyTranscript(s) == TRUE

\* len(st.session_state["messages"]) == 0, line 180
TranscriptEmpty(s) == Len(s.messages) = 0

Autoload(c) ==
    LET agent_runs == AgentRuns(c.st)
        c1 == [c EXCEPT !.st.has_messages = TRUE]
    IN IF TranscriptEmpty(c1.st) /\ Len(agent_runs) > 0 /\ ~PreventAutoload(c1.st)
       THEN AutoloadLoop(agent_runs, 1,
              [c1 EXCEPT !.ev.autoload = TRUE,
                         !.ev.autoload_prevent = c1.st.prevent_session_autoload])
       ELSE c1

\* ------------------------------------------------ app.py main, 195-228
\* the first id of NewIds the store does not hold yet
FreshId(sto) ==
    NewIds[CHOOSE i \in 1..Len(NewIds) :
             /\ ~sto[NewIds[i]].exists
             /\ \A j \in 1..(i - 1) : sto[NewIds[j]].exists]

\* agent.load_session() of line 212: the id the handle is bound to, or a new
\* session created in the store for the handle's user
CreateSession(c) ==
    LET agent == c.st.agentic_rag_agent
        sid == IF agent.session_id # NONE THEN agent.session_id ELSE FreshId(c.store)
        sto == IF c.store[sid].exists THEN c.store
               ELSE [c.store EXCEPT ![sid] = Record(agent.user_id, NONE, TRUE, <<>>)]
    IN ClearPrevent(
         [c EXCEPT !.store = sto,
                   !.st.agentic_rag_agent = load_session(agent, sid, sto[sid]),
                   !.st.agentic_rag_agent_session_id = sid,
                   !.ev.returned_id = sid,
                   !.ev.created = TRUE])

\* lines 220-228: the session takes the prompt's first line as its name when
\* it has none (or only its id)
AutoName(c, prompt) ==
    LET sid == c.st.agentic_rag_agent.session_id IN
    IF sid # NONE /\ c.store[sid].exists
       /\ (Falsy(c.store[sid].session_name) \/ c.store[sid].session_name = sid)
    THEN [c EXCEPT !.store[sid].session_name = prompt]
    ELSE c

ChatInput(c, env, prompt) ==
    IF Falsy(prompt) \/ c.st.cached_user_id = ""
    THEN [c EXCEPT !.done = "return"]
    ELSE LET c1 == Say([c EXCEPT !.ev.accepted = TRUE], "user", prompt, NONE)
             c2 == IF c1.st.agentic_rag_agent_session_id # NONE THEN c1
                   ELSE IF env.load_fails
                     THEN [c1 EXCEPT !.ev.load_calls = @ + 1,
                                     !.ev.load_raised = TRUE]
                   ELSE CreateSession([c1 EXCEPT !.ev.load_calls = @ + 1])
         IN AutoName(c2, prompt)

\* ------------------------------------------------ app.py restart_agent, 35-47
\* a faulty variant of restart_agent: line 46 (the flag) is left out
restart_without_flag(c) ==
    [c EXCEPT !.st.agentic_rag_agent = NoAgent,
              !.st.agentic_rag_agent_session_id = NONE,
              !.st.messages = <<>>,
              !.st.has_messages = TRUE,
              !.st.session_selector = NONE,
              !.ev.base = <<>>,
              !.ev.calls = <<>>,
              !.done = "rerun"]

restart_agent(c) ==
    [c EXCEPT !.st.agentic_rag_agent = NoAgent,
              !.st.agentic_rag_agent_session_id = NONE,
              !.st.messages = <<>>,
              !.st.has_messages = TRUE,
              !.st.session_selector = NONE,
              !.st.prevent_session_autoload = TRUE,
              !.ev.base = <<>>,
              !.ev.calls = <<>>,
              !.done = "rerun"]

\* ------------------------------------------------ app.py main, 289-354
\* agent.run persists the turn in the handle's session and memory
PersistRun(c, question, text, tools) ==
    LET sid == c.st.agentic_rag_agent.session_id
        run == SingleRun(question, text, tools)
    IN IF sid # NONE /\ c.store[sid].exists
       THEN [c EXCEPT !.store[sid].runs = Append(@, run),
                      !.store[sid].has_memory = TRUE,
                      !.st.agentic_rag_agent.runs = Append(@, AsAgentRun(run))]
       ELSE c

\* a faulty variant of the handler of lines 344-347: the text accumulated so
\* far is appended as well
KeepPartial(c, partial) ==
    Say(Say(c, "assistant", partial, NONE), "assistant", error_message, NONE)

\* lines 344-347: the except branch appends the error message only
OnStreamError(c, partial) == Say(c, "assistant", error_message, NONE)

RECURSIVE StreamLoop(_, _, _)
\* lines 314-322: the chunks are consumed in order and the content of each is
\* added to response; the stream raises when the chunk after the first
\* env.after ones is asked for
StreamLoop(env, i, response) ==
    IF env.stream_raises /\ i - 1 = env.after
    THEN [response |-> response, consumed |-> i - 1, raised |-> TRUE]
    ELSE IF i > Len(env.chunks)
    THEN [response |-> response, consumed |-> i - 1, raised |-> FALSE]
    ELSE StreamLoop(env, i + 1,
           IF env.chunks[i].has_content THEN response \o env.chunks[i].content
           ELSE response)

Respond(c, env) ==
    LET msgs == c.st.messages IN
    IF Len(msgs) > 0 /\ msgs[Len(msgs)].role = "user"
    THEN LET question == msgs[Len(msgs)].content
             r == StreamLoop(env, 1, <<>>)
             c1 == [c EXCEPT !.ev.ran_agent = TRUE,
                             !.ev.consumed = r.consumed,
                             !.ev.stream_raised = r.raised,
                             !.ev.raise_after = env.after,
                             !.ev.turn_base = msgs,
                             !.ev.partial = Join(r.response)]
             final_text == Join(sanitize_agent_text(r.response))
         IN IF r.raised
            THEN OnStreamError(c1, Join(r.response))
            ELSE [Say(PersistRun(c1, question, Join(r.response), env.tools),
                      "assistant", final_text, env.tools)
                  EXCEPT !.done = "rerun"]
    ELSE c

\* ------------------------------------- utils.py session_selector_widget
\* user_sessions, lines 191-192, as the ids in store order
UserSessions(sto, user_id) ==
    SelectSeq(SessionOrder,
              LAMBDA id : sto[id].exists /\ sto[id].user_id = user_id)

\* display_name, lines 198-203
DisplayName(sto, id) ==
    IF ~Falsy(sto[id].session_name) THEN sto[id].session_name ELSE id

\* display_list, line 208
DisplayList(sto, user_id) ==
    LET ids == UserSessions(sto, user_id)
    IN <<placeholder_display>> \o [i \in 1..Len(ids) |-> DisplayName(sto, ids[i])]

\* next(i for i, x in enumerate(seq) if x == v), counted from 1
FirstIndex(seq, v) ==
    CHOOSE i \in 1..Len(seq) : seq[i] = v /\ \A j \in 1..(i - 1) : seq[j] # v

Has(seq, v) == \E i \in 1..Len(seq) : seq[i] = v

\* default_index, lines 210-220, as a position in display_list counted from 1
DefaultIndex(s, ids) ==
    LET current_session_id == s.agentic_rag_agent_session_id IN
    IF ~s.prevent_session_autoload /\ current_session_id # NONE
       /\ Has(ids, current_session_id)
    THEN FirstIndex(ids, current_session_id) + 1
    ELSE 1

\* st.sidebar.selectbox(..., key="session_selector"), lines 222-227: the
\* widget keeps its value while it is one of the options and takes the
\* default index otherwise
SelectedDisplay(s, display_list, ids) ==
    IF s.session_selector # NONE /\ Has(display_list, s.session_selector)
    THEN s.session_selector
    ELSE display_list[DefaultIndex(s, ids)]

\* selected_session_id, lines 229-235
SelectedSessionId(sto, ids, selected_display) ==
    IF selected_display = placeholder_display THEN NONE
    ELSE ids[FirstIndex([i \in 1..Len(ids) |-> DisplayName(sto, ids[i])],
                        selected_display)]

\* a faulty variant of the guard of utils.py 241-244: never the same session
AlwaysSwitch(s, selected_session_id) == FALSE

\* the test of lines 241-244, negated: the selection is the active session
SameSession(s, selected_session_id) ==
    s.agentic_rag_agent_session_id = selected_session_id

\* seen_messages = set(), line 277
NewPass(msgs) == [msgs |-> msgs, seen |-> {}, raised |-> FALSE, calls |-> <<>>]

\* lines 249-333: the switch to another session
SwitchSession(c, env, selected_session_id) ==
    IF env.ctor_fails THEN [c EXCEPT !.ev.sel = "ctor_failed"]
    ELSE
      LET c1 == ClearPrevent(
                  [c EXCEPT
                     !.st.agentic_rag_agent =
                         get_finance_agent(c.st.cached_user_id, selected_session_id),
                     !.st.agentic_rag_agent_session_id = selected_session_id,
                     !.ev.built = @ + 1,
                     !.ev.switch_built = TRUE])
          c2 == ClearMessages(c1)
          selected_session_obj == c.store[selected_session_id]
          runs == IF selected_session_obj.has_memory
                  THEN selected_session_obj.runs ELSE <<>>
          acc == RunsLoop(runs, 1, NewPass(c2.st.messages))
          pass == [done |-> TRUE, runs |-> runs, result |-> acc.msgs,
                   raised |-> acc.raised]
          c3 == [c2 EXCEPT !.st.messages = acc.msgs,
                           !.ev.calls = acc.calls,
                           !.ev.pass = pass,
                           !.ev.pass_prevent = c2.st.prevent_session_autoload,
                           !.ev.prev_pass =
                               IF selected_session_id \in DOMAIN c.passes
                               THEN c.passes[selected_session_id] ELSE NoPass,
                           !.passes =
                               IF selected_session_id \in DOMAIN c.passes
                               THEN [@ EXCEPT ![selected_session_id] = pass]
                               ELSE @]
      IN IF acc.raised THEN [c3 EXCEPT !.ev.sel = "rebuild_failed"]
         ELSE [c3 EXCEPT !.ev.sel = "switched", !.done = "rerun"]

session_selector_widget(c, env) ==
    LET user_id == c.st.cached_user_id
        ids == UserSessions(c.store, user_id)
        c0 == [c EXCEPT !.ev.pre = Snapshot(c.st)]
    IN IF Len(ids) = 0 THEN [c0 EXCEPT !.ev.sel = "no_sessions"]
       ELSE
         LET display_list == DisplayList(c.store, user_id)
             selected_display == SelectedDisplay(c.st, display_list, ids)
             selected_session_id ==
                 SelectedSessionId(c.store, ids, selected_display)
             c1 == [c0 EXCEPT !.st.session_selector = selected_display,
                              !.ev.target = selected_session_id]
         IN IF selected_session_id = NONE THEN [c1 EXCEPT !.ev.sel = "placeholder"]
            ELSE IF SameSession(c1.st, selected_session_id)
              THEN [c1 EXCEPT !.ev.sel = "same"]
            ELSE SwitchSession(c1, env, selected_session_id)

\* ------------------------------------------------------------- one render
\* What the collaborators do during one render: which call raises, and the
\* text and tools of the agent's answer.  At most one call fails per render.
\*   chunks         the chunks the agent's stream yields
\*   stream_raises  the stream raises once `after` chunks were consumed
Env(load_fails, ctor_fails, chunks, stream_raises, after, tools) ==
    [load_fails |-> load_fails, ctor_fails |-> ctor_fails, chunks |-> chunks,
     stream_raises |-> stream_raises, after |-> after, tools |-> tools]

\* one chunk of the stream; its content may be None (line 320)
Chunk(content) == [has_content |-> TRUE, content |-> content]

NoContentChunk == [has_content |-> FALSE, content |-> <<>>]

\* an answer in two chunks, the second one a tool-call fragment
Answer ==
    << Chunk(<<"r">>),
       Chunk(<<" ", "f", "(", ")", " ", "c", "o", "m", "p", "l", "e", "t", "e",
               "d", " ", "i", "n", " ", "1", "s">>) >>

Envs ==
    { Env(FALSE, FALSE, Answer, FALSE, 0, "tools"),
      Env(FALSE, FALSE, <<NoContentChunk>>, FALSE, 0, NONE),
      Env(TRUE, FALSE, Answer, FALSE, 0, NONE),
      Env(FALSE, TRUE, Answer, FALSE, 0, NONE),
      Env(FALSE, FALSE, Answer, TRUE, 0, NONE),
      Env(FALSE, FALSE, Answer, TRUE, 1, NONE) }

\* the session state a run of the script starts from: the widget event has
\* already updated the widget's own state
Start(kind, arg) ==
    LET s0 == IF kind = "uid" THEN [st EXCEPT !.cached_user_id = arg]
              ELSE IF kind = "select"
                THEN [st EXCEPT !.session_selector = arg.display]
              ELSE st
        e0 == EvStart(kind, s0)
    IN [st |-> s0, store |-> store, passes |-> passes,
        ev |-> IF kind = "select" THEN [e0 EXCEPT !.chosen = arg.id] ELSE e0,
        done |-> "no"]

\* app.py main, top to bottom, for the widget event that triggered the run.
\* st.rerun() and the return of line 203 end the run where they stand.
Render(kind, arg) ==
    \E env \in Envs :
    \E c1 \in {InitAgent(Start(kind, arg))} :
    \E c2 \in {LoadExisting(c1, env)} :
    \E c3 \in {Autoload(c2)} :
    \E c4 \in {IF kind = "chat" THEN ChatInput(c3, env, arg) ELSE c3} :
    \E c5 \in {IF c4.done = "no" /\ kind = "newchat" THEN restart_agent(c4) ELSE c4} :
    \E c6 \in {IF c5.done = "no" THEN Respond(c5, env) ELSE c5} :
    \E c \in {IF c6.done = "no" THEN session_selector_widget(c6, env) ELSE c6} :
        /\ c.ev.ran_agent => turns < MaxTurns
        /\ st' = c.st
        /\ store' = c.store
        /\ passes' = c.passes
        /\ ev' = c.ev
        /\ io' = io
        /\ pending_rerun' = (c.done = "rerun")
        /\ turns' = IF c.ev.ran_agent THEN turns + 1 ELSE turns

\* texts typed into the chat input (an empty submission included)
Prompts == {"", "p"}

\* a run of the script with no widget event: the first run, the run st.rerun()
\* asks for, or a re-render
Rerender == Render("rerun", NONE)

ChatSubmit == ~pending_rerun /\ \E prompt \in Prompts : Render("chat", prompt)

NewChat == ~pending_rerun /\ Render("newchat", NONE)

SelectSession ==
    /\ ~pending_rerun
    /\ ev.sel \notin {"not_reached", "no_sessions"}
    /\ \E i \in 1..Len(DisplayList(store, st.cached_user_id)) :
         LET d == DisplayList(store, st.cached_user_id)[i]
             ids == UserSessions(store, st.cached_user_id)
         IN /\ d # st.session_selector
            /\ Render("select",
                      [display |-> d, id |-> IF i = 1 THEN NONE ELSE ids[i - 1]])

\* the user id field is set to another value of U
ChangeUserIdTo(U) ==
    /\ ~pending_rerun
    /\ \E u \in U : u # st.cached_user_id /\ Render("uid", u)

ChangeUserId == ChangeUserIdTo({"", "u1"})

\* ------------------------------------------------------------ initial state
\* no helper has been called on its own
NoCall == [fn |-> "none", done |-> FALSE]

InitialSt(uid) ==
    [has_messages |-> FALSE, messages |-> <<>>,
     agentic_rag_agent |-> NoAgent,
     agentic_rag_agent_session_id |-> NONE,
     prevent_session_autoload |-> FALSE,
     current_user_id |-> NONE,
     cached_user_id |-> uid,
     session_selector |-> NONE]

InitialStore(runs1, mem1) ==
    [id \in SessionIds |->
       IF id = "s1" THEN Record("u1", NONE, mem1, runs1)
       ELSE IF id = "s2" THEN Record("u1", NONE, TRUE, <<SingleRun("c", "d", NONE)>>)
       ELSE IF id = "s3" THEN Record("u2", NONE, TRUE, <<SingleRun("a", NONE, NONE)>>)
       ELSE NoRecord]

\* the run lists session s1 starts with in the full machine
StartRuns ==
    { <<>>,
      <<SingleRun("a", "b", "tools")>>,
      <<SingleRun("a", NONE, NONE)>>,
      <<MultiRun(<<Msg("user", ""), Msg("assistant", NONE)>>, NONE)>>,
      <<MultiRun(<<Msg("system", "a"), Msg("user", NONE)>>, NONE)>>,
      <<MultiRun(<<Msg("user", "a"), Msg("assistant", "b")>>, NONE), NotADictRun,
        SingleRun("b", "a", NONE)>> }

InitWith(uids, runs, mems, followed) ==
    /\ \E uid \in uids : st = InitialSt(uid)
    /\ \E runs1 \in runs, mem1 \in mems :
         /\ (~mem1 => runs1 = <<>>)
         /\ store = InitialStore(runs1, mem1)
    /\ pending_rerun = TRUE
    /\ turns = 0
    /\ passes = [id \in followed |-> NoPass]
    /\ ev = EvStart("init", InitialSt(""))
    /\ io = NoCall

Init == InitWith({"u1"}, StartRuns, BOOLEAN, {})

Next == Rerender \/ ChatSubmit \/ NewChat \/ SelectSession \/ ChangeUserId

Spec == Init /\ [][Next]_vars

\* The selector and the reset alone, over every run list of the catalog, with
\* the rebuilds of every session followed and no agent run.
InitReconcile ==
    InitWith({"u1"}, SeqsUpTo(RunCatalog, MaxRuns), BOOLEAN, SessionIds)

NextReconcile == (Rerender \/ NewChat \/ SelectSession) /\ turns' = turns

SpecReconcile == InitReconcile /\ [][NextReconcile]_vars

\* The selector over session lists whose display names collide: two sessions
\* of one name, and a session named like another session's id.
SessionNames == {NONE, "x", "s1", "s2"}

InitSelector ==
    /\ st = InitialSt("u1")
    /\ \E name1 \in SessionNames, name2 \in SessionNames, runs1 \in StartRuns :
         store = [InitialStore(runs1, TRUE) EXCEPT !["s1"].session_name = name1,
                                                   !["s2"].session_name = name2]
    /\ pending_rerun = TRUE
    /\ turns = 0
    /\ passes = [id \in {} |-> NoPass]
    /\ ev = EvStart("init", InitialSt(""))
    /\ io = NoCall

SpecSelector == InitSelector /\ [][NextReconcile]_vars

\* Two users at one browser session: the user id field goes from one user to
\* the other, with the selector and the reset and no agent run.
UserIds == {"", "u1", "u2"}

NextUsers ==
    (Rerender \/ NewChat \/ SelectSession \/ ChangeUserIdTo(UserIds))
      /\ turns' = turns

SpecUsers == Init /\ [][NextUsers]_vars

\* ----------------------------------------------- the text helpers on their own
\* export_chat_history and sanitize_agent_text as functions: the initial state
\* holds the argument, the call puts the result into io.
ExportMessages ==
    { Message("user", "p", NONE),
      Message("assistant", "r", "tools"),
      Message("assistant", NONE, NONE) }

Label == <<"R", "e", "s", "u", "l", "t">>

Snippet ==
    <<"g", "e", "t", "_", "p", "r", "i", "c", "e", "(", "s", "y", "m", "b", "o",
      "l", "=", "A", "A", "P", "L", ")", " ", "c", "o", "m", "p", "l", "e", "t",
      "e", "d", " ", "i", "n", " ", "0", ".", "4", "2", "s", ".">>

Fragments == {Label, <<":", " ">>, Snippet, <<"r">>, <<" ">>}

RECURSIVE Concat(_)
\* the text a sequence of fragments spells
Concat(fs) == IF fs = <<>> THEN <<>> ELSE Head(fs) \o Concat(Tail(fs))

SanitizeInputs == {Concat(fs) : fs \in SeqsUpTo(Fragments, MaxFragments)}

InitHelpers ==
    /\ store = InitialStore(<<>>, TRUE)
    /\ pending_rerun = FALSE
    /\ turns = 0
    /\ passes = [id \in {} |-> NoPass]
    /\ ev = EvStart("init", InitialSt(""))
    /\ \/ /\ \E msgs \in SeqsUpTo(ExportMessages, MaxExport), has \in BOOLEAN :
               /\ (~has => msgs = <<>>)
               /\ st = [InitialSt("u1") EXCEPT !.has_messages = has,
                                               !.messages = msgs]
          /\ io = [fn |-> "export", done |-> FALSE, text |-> <<>>, out |-> <<>>]
       \/ /\ st = InitialSt("u1")
          /\ \E text \in SanitizeInputs :
               io = [fn |-> "sanitize", done |-> FALSE, text |-> text, out |-> <<>>]

ExportCall ==
    /\ io.fn = "export" /\ ~io.done
    /\ io' = [io EXCEPT !.done = TRUE, !.out = export_chat_history(st)]
    /\ UNCHANGED <<st, store, pending_rerun, turns, passes, ev>>

SanitizeCall ==
    /\ io.fn = "sanitize" /\ ~io.done
    /\ io' = [io EXCEPT !.done = TRUE, !.out = sanitize_agent_text(io.text)]
    /\ UNCHANGED <<st, store, pending_rerun, turns, passes, ev>>

NextHelpers == ExportCall \/ SanitizeCall

SpecHelpers == InitHelpers /\ [][NextHelpers]_vars

\* -------------------------------------------------------------- properties
\* the (role, content) pair that identifies a Message
Pair(m) == [role |-> m.role, content |-> m.content]

\* every (role, content) a run offers, in the order the run lists them
RunPairs(run) ==
    IF ~run.isdict THEN <<>>
    ELSE IF run.has_messages
      THEN LET dicts == SelectSeq(run.messages, LAMBDA e : e.isdict)
           IN [i \in 1..Len(dicts) |-> Pair(dicts[i])]
    ELSE IF run.message = "content"
      THEN <<[role |-> "user", content |-> run.user_msg],
             [role |-> "assistant", content |-> run.content]>>
    ELSE <<>>

RECURSIVE Raw(_)
\* the pairs of a run list, in store order
Raw(runs) ==
    IF runs = <<>> THEN <<>> ELSE RunPairs(Head(runs)) \o Raw(Tail(runs))

\* a run the rebuild cannot read: not a mapping, no expected field, or an
\* entry of its messages that is not a mapping
Malformed(run) ==
    \/ ~run.isdict
    \/ (run.has_messages /\ \E i \in 1..Len(run.messages) : ~run.messages[i].isdict)
    \/ (~run.has_messages /\ run.message # "content")

\* C1: rebuilding the Transcript from the same SessionRecord a second time
\* yields the same sequence of Messages as the first time.
C1_ReconcileIdempotent ==
    (ev.pass.done /\ ev.prev_pass.done /\ ev.prev_pass.runs = ev.pass.runs)
      => /\ ev.pass.result = ev.prev_pass.result
         /\ st.messages = ev.prev_pass.result

C1_Witness ==
    /\ ev.pass.done /\ ev.prev_pass.done
    /\ ev.prev_pass.runs = ev.pass.runs
    /\ ~ev.pass.raised
    /\ Len(ev.pass.runs) = 2
    /\ Len(ev.pass.result) >= 2
    /\ Len(ev.pre.messages) > 0

\* C2: after a reconciliation pass the Transcript holds no two Messages with
\* the same (role, content), and the Messages kept are first occurrences, in
\* run order.
C2_NoDuplicatesFirstOccurrence ==
    ev.pass.done =>
      LET m == st.messages
          raw == Raw(ev.pass.runs)
      IN /\ \A i, j \in 1..Len(m) : i < j => Pair(m[i]) # Pair(m[j])
         /\ \A i \in 1..Len(m) : Has(raw, Pair(m[i]))
         /\ \A i, j \in 1..Len(m) :
              i < j => FirstIndex(raw, Pair(m[i])) < FirstIndex(raw, Pair(m[j]))

C2_Witness ==
    /\ ev.pass.done /\ ~ev.pass.raised
    /\ Len(ev.pass.runs) = 2
    /\ ev.pass.runs[1].has_messages /\ ~ev.pass.runs[2].has_messages
    /\ Len(st.messages) >= 2
    /\ Len(Raw(ev.pass.runs)) >= Len(st.messages) + 3

\* C3: a malformed run is skipped on its own; the valid runs before and after
\* it still contribute their Messages, in store order.
C3_MalformedRunSkipped ==
    ev.pass.done =>
      st.messages =
        RunsLoop(SelectSeq(ev.pass.runs, LAMBDA r : ~Malformed(r)), 1,
                 NewPass(<<>>)).msgs

\* C4: a switch that fails at any step leaves the Transcript, the active
\* session id, the flag and the agent handle as they were before the call.
C4_FailedSwitchRollsBack ==
    ev.sel \in {"ctor_failed", "rebuild_failed"} => Snapshot(st) = ev.pre

\* C5: selecting the session that is already active changes neither the
\* Transcript, the active session id, the flag nor the agent handle.
C5_SameSessionNoOp ==
    (ev.target # NONE /\ ev.target = ev.pre.agentic_rag_agent_session_id)
      => /\ Snapshot(st) = ev.pre
         /\ ~ev.switch_built
         /\ ~ev.pass.done

C5_Witness ==
    /\ ev.target # NONE
    /\ ev.target = ev.pre.agentic_rag_agent_session_id
    /\ ev.kind = "rerun"
    /\ Len(st.messages) > 0
    /\ store[ev.target].runs # <<>>

\* C6: after a successful switch every Message of the Transcript comes from
\* the target session's runs, none from the Transcript before, and the
\* Transcript is empty when the target has no memory or no runs.
C6_SwitchYieldsFreshTranscript ==
    ev.sel = "switched" =>
      LET rec == store[ev.target]
          raw == IF rec.has_memory THEN Raw(rec.runs) ELSE <<>>
      IN /\ \A i \in 1..Len(st.messages) : Has(raw, Pair(st.messages[i]))
         /\ Len(st.messages) <= Len(raw)
         /\ (~rec.has_memory \/ rec.runs = <<>>) => st.messages = <<>>

C6_Witness ==
    /\ ev.sel = "switched"
    /\ Len(st.messages) > 0
    /\ \E i \in 1..Len(ev.pre.messages) :
         ~Has(Raw(store[ev.target].runs), Pair(ev.pre.messages[i]))

\* C7: no Message taken from persisted runs is appended while the
\* prevent-autoload flag is set; only a reset sets the flag, and only a lazy
\* session creation or a session selection clears it.
C7_NoPopulationWhileSuppressed ==
    /\ ev.autoload => ~ev.autoload_prevent
    /\ ev.pass.done => ~ev.pass_prevent
    /\ (~ev.start.prevent_session_autoload /\ st.prevent_session_autoload)
         => ev.kind = "newchat"
    /\ (ev.start.prevent_session_autoload /\ ~st.prevent_session_autoload)
         => (ev.created \/ ev.sel \in {"switched", "rebuild_failed"})

C7_Witness ==
    /\ ev.start.prevent_session_autoload
    /\ ev.sel = "switched"
    /\ ev.pass.done
    /\ Len(st.messages) > 0

\* C8: a reset clears the active session id and the agent handle, empties the
\* Transcript and sets the flag; from then on the Transcript stays empty on
\* every render until a message is submitted or a session is selected.
C8_ResetThenStaysEmpty ==
    /\ ev.kind = "newchat"
         => /\ st.agentic_rag_agent_session_id = NONE
            /\ ~st.agentic_rag_agent.some
            /\ st.messages = <<>>
            /\ st.prevent_session_autoload
            /\ st.session_selector = NONE
            /\ pending_rerun
    /\ ( /\ ev.start.prevent_session_autoload
         /\ ev.start.messages = <<>>
         /\ ev.start_selector \in {NONE, placeholder_display}
         /\ ev.kind \in {"rerun", "uid"} )
         => /\ st.messages = <<>>
            /\ st.agentic_rag_agent_session_id = NONE
            /\ st.prevent_session_autoload

C8_Witness ==
    /\ ev.kind = "rerun"
    /\ ev.start.prevent_session_autoload
    /\ ev.start_selector = placeholder_display
    /\ ev.sel = "placeholder"
    /\ st.messages = <<>>
    /\ store["s1"].runs # <<>>
    /\ store["s2"].runs # <<>>

\* the add_message calls of the last render that carried content
NonEmptyCalls(calls) == SelectSeq(calls, LAMBDA k : ~Falsy(k.content))

\* C9: an append with empty or None content leaves the Transcript as it was,
\* so the Transcript grows only by the calls that carried content.
C9_EmptyAppendIsNoOp ==
    Len(st.messages) = Len(ev.base) + Len(NonEmptyCalls(ev.calls))

\* C10: the Transcript holds exactly one Message per append call with
\* non-empty content, in call order, duplicates included.
C10_OneMessagePerNonEmptyAppend ==
    LET kept == NonEmptyCalls(ev.calls)
    IN [i \in 1..Len(st.messages) |-> Pair(st.messages[i])] = [i \in 1..Len(ev.base) |-> Pair(ev.base[i])] \o kept

\* C11: when the response stream raises after k chunks, no further chunk is
\* consumed and the turn appends exactly one Message after the user's, the
\* assistant error Message; the partial text of the k chunks is not appended.
C11_StreamErrorOneMessage ==
    ev.stream_raised =>
      LET m == ev.pre.messages
          n == Len(m)
      IN /\ ev.consumed = ev.raise_after
         /\ m = Append(ev.turn_base, Message("assistant", error_message, NONE))
         /\ m[n - 1].role = "user"
         /\ ev.partial # "" => m[n].content # ev.partial

C11_Witness ==
    /\ ev.stream_raised
    /\ ev.kind = "chat"
    /\ ev.consumed = 1
    /\ ev.partial = "r"
    /\ ev.pre.messages[Len(ev.pre.messages)].content = error_message

\* the last render was a re-render that started from a non-empty Transcript
\* with no user message pending
SettledRerender ==
    /\ ev.kind = "rerun"
    /\ ev.start.messages # <<>>
    /\ ev.start.messages[Len(ev.start.messages)].role # "user"

BeforeSelector == IF ev.sel = "not_reached" THEN Snapshot(st) ELSE ev.pre

\* C13: while no session is active, a render without an accepted user message
\* calls load_session nowhere and creates no session; the first accepted user
\* message calls load_session once: on success the active session id is the
\* returned id and the flag is cleared, and when the call raises the active
\* session id stays absent and the flag is as it was.
C13_LazySessionCreation ==
    ev.start.agentic_rag_agent_session_id = NONE =>
      /\ ~ev.loaded
      /\ ~ev.accepted =>
            /\ ev.load_calls = 0 /\ ~ev.created
            /\ BeforeSelector.agentic_rag_agent_session_id = NONE
            /\ (st.agentic_rag_agent_session_id = NONE
                  \/ (ev.pass.done /\ st.agentic_rag_agent_session_id = ev.target))
      /\ ev.accepted =>
            /\ ev.load_calls = 1
            /\ ev.created = ~ev.load_raised
            /\ ev.created =>
                  /\ ev.returned_id # NONE
                  /\ BeforeSelector.agentic_rag_agent_session_id = ev.returned_id
                  /\ ~BeforeSelector.prevent_session_autoload
            /\ ev.load_raised =>
                  /\ BeforeSelector.agentic_rag_agent_session_id = NONE
                  /\ BeforeSelector.prevent_session_autoload
                       = ev.start.prevent_session_autoload

C13_Witness ==
    /\ ev.start.agentic_rag_agent_session_id = NONE
    /\ ev.start.prevent_session_autoload
    /\ ev.accepted /\ ev.created
    /\ st.agentic_rag_agent_session_id = ev.returned_id
    /\ store[ev.returned_id].exists
    /\ ~st.prevent_session_autoload

\* C14: after a reconciliation pass every Message of the Transcript has
\* non-empty content and a role other than system; a single-turn run gives a
\* user Message only when its message.content is non-empty and an assistant
\* Message only when its content is non-empty.
C14_RebuiltMessagesHaveContent ==
    ev.pass.done =>
      \A i \in 1..Len(st.messages) :
        ~Falsy(st.messages[i].content) /\ st.messages[i].role # "system"

\* the section headings of an exported text, in order
Headings(out) == SelectSeq(out, LAMBDA l : l \in {"### Assistant", "### User"})

\* C15: the export of an empty Transcript, never created or created and
\* cleared, is the empty text or the header alone: it holds no message
\* section.
C15_ExportOfEmptyTranscript ==
    (io.fn = "export" /\ io.done /\ st.messages = <<>>) =>
      /\ io.out \in {<<>>, <<"# Finance Agent - Chat History", "">>}
      /\ Headings(io.out) = <<>>
      /\ ~st.has_messages => io.out = <<>>

C15_Witness ==
    /\ io.fn = "export" /\ io.done
    /\ st.has_messages /\ st.messages = <<>>
    /\ io.out = <<"# Finance Agent - Chat History", "">>

\* C16: sanitize_agent_text of
\* "Result: get_price(symbol=AAPL) completed in 0.42s." is "Result:".
C16_SnippetRemovedLabelKept ==
    (io.fn = "sanitize" /\ io.done /\ io.text = Label \o <<":", " ">> \o Snippet)
      => io.out = Label \o <<":">>

\* C19: the export has one section per Message, in Transcript order, and the
\* heading of each section names the role of its Message.
C19_ExportHeadingNamesRole ==
    (io.fn = "export" /\ io.done) =>
      LET heads == Headings(io.out) IN
        /\ Len(heads) = Len(st.messages)
        /\ \A i \in 1..Len(heads) :
             /\ st.messages[i].role = "assistant" => heads[i] = "### Assistant"
             /\ st.messages[i].role = "user" => heads[i] = "### User"

\* C17: agent.run is started only for a user Message appended by the chat
\* input of the same render, never for a Transcript rebuilt from persisted
\* runs by a selection or the autoload.
C17_AgentRunsOnlyForLiveMessage ==
    ev.ran_agent => (ev.kind = "chat" /\ ev.accepted)

\* C18: selecting an entry of the session list makes the session that entry
\* was built from the active one, also when two entries show the same text.
C18_SelectionActivatesChosenEntry ==
    (ev.kind = "select" /\ ev.sel \notin {"not_reached", "no_sessions"}) =>
      /\ ev.target = ev.chosen
      /\ ev.sel \in {"switched", "same", "rebuild_failed"}
            => st.agentic_rag_agent_session_id = ev.chosen

\* C20: after the user id was changed to another non-empty value the
\* Transcript holds no Message of the previous user and the active session
\* id is not a session of the previous user.
C20_StateFollowsUserId ==
    ( /\ ev.kind = "uid"
      /\ st.cached_user_id # ""
      /\ ev.start_user_id \notin {NONE, "", st.cached_user_id} )
      => /\ st.current_user_id = st.cached_user_id
         /\ st.agentic_rag_agent.user_id = st.cached_user_id
         /\ st.messages = <<>> \/ ev.start.messages = <<>> \/ ev.pass.done
         /\ st.agentic_rag_agent_session_id = NONE
              \/ store[st.agentic_rag_agent_session_id].user_id = st.cached_user_id

====
